---- MODULE Spec2Model ----
(***************************************************************************)
(* @lamersv/error: the error hierarchy CustomError / WarnError /           *)
(* ExceptionError, the named subtypes, normalizeErrorMessage and the       *)
(* static factory CustomError.from.                                        *)
(*                                                                         *)
(* A JavaScript string the code manipulates (message, userMessage) is a    *)
(* sequence of code points; a code point outside ASCII is written          *)
(* "U+XXXX".  A properties bag is a function whose domain is the set of    *)
(* keys that are present with a value other than undefined.  Every other   *)
(* JavaScript value is a record tagged by its field t.                     *)
(***************************************************************************)
EXTENDS Integers, Sequences, FiniteSets, TLC

VARIABLES pc, op, args, res, outcome, hops, wraps, nextId, out

vars == <<pc, op, args, res, outcome, hops, wraps, nextId, out>>

RECURSIVE trimStart(_), trimEnd(_), collapseSpaces(_), nfc(_)
RECURSIVE WarnErrorCtor(_, _, _, _), ExceptionErrorCtor(_, _, _, _)

\* ------------------------------------------------------------------------
\* Bounds of the model
\* ------------------------------------------------------------------------

\* longest message passed to a constructor or carried by a native Error
MaxMsgLen == 3

\* number of successive CustomError.from calls in one run
MaxWraps == 2

\* longest string handed to normalizeErrorMessage on its own
MaxNormLen == 4

\* ------------------------------------------------------------------------
\* JavaScript values
\* ------------------------------------------------------------------------

Undefined == [t |-> "undefined"]

Null == [t |-> "null"]

StringValue(s) == [t |-> "string", s |-> s]

NumberValue(n) == [t |-> "number", n |-> n]

\* a native Error made by the caller
NativeError(m) == [t |-> "Error", id |-> 0, name |-> "Error", message |-> m]

\* a plain object that only looks like a CustomError
PlainObject == [t |-> "object", id |-> 0, name |-> "CustomError"]

Has(bag, key) == key \in DOMAIN bag

\* bag?.key ?? dflt
Get(bag, key, dflt) == IF Has(bag, key) THEN bag[key] ELSE dflt

\* bag?.key ?? dflt for a key typed unknown, whose value may be null
GetUnknown(bag, key, dflt) ==
  IF Has(bag, key) /\ bag[key] # Null THEN bag[key] ELSE dflt

\* the keys of bag among keys, as an object literal would copy them
Pick(bag, keys) == [k \in (DOMAIN bag) \cap keys |-> bag[k]]

EmptyBag == Pick(<<>>, {})

\* ------------------------------------------------------------------------
\* utils/normalize
\* ------------------------------------------------------------------------

Placeholder ==
  <<"E","r","r","o"," ","d","e","s","c","o","n","h","e","c","i","d","o">>

\* the characters matched by \s and removed by trim() that the model draws
WhiteSpace == {" ", "\t", "\n"}

\* canonical compositions applied by normalize("NFC") that the model draws
Compositions ==
  [base : {"e"}, mark : {"U+0301"}, composed : {"U+00E9"}]

RadixDigits == <<"0","1","2","3","4","5","6","7","8","9">>

\* String(message) of a non-negative integer below 100
NumberToString(n) ==
  IF n < 10 THEN <<RadixDigits[n + 1]>>
  ELSE <<RadixDigits[(n \div 10) + 1], RadixDigits[(n % 10) + 1]>>

\* String(message)
String(v) ==
  CASE v.t = "string" -> v.s
    [] v.t = "number" -> NumberToString(v.n)
    [] v.t = "Error"  -> IF v.message = <<>> THEN <<"E","r","r","o","r">>
                         ELSE <<"E","r","r","o","r",":"," ">> \o v.message
    [] OTHER          -> <<"[","o","b","j","e","c","t"," ",
                           "O","b","j","e","c","t","]">>

trimStart(s) ==
  IF s # <<>> /\ Head(s) \in WhiteSpace THEN trimStart(Tail(s)) ELSE s

trimEnd(s) ==
  IF s # <<>> /\ s[Len(s)] \in WhiteSpace
  THEN trimEnd(SubSeq(s, 1, Len(s) - 1))
  ELSE s

\* mutant: only the start of the string is trimmed
trim_StartOnly(s) == trimStart(s)

trim(s) == trimEnd(trimStart(s))

\* replace(/\s+/g, " ")
collapseSpaces(s) ==
  IF s = <<>> THEN <<>>
  ELSE IF Head(s) \in WhiteSpace
       THEN <<" ">> \o collapseSpaces(trimStart(s))
       ELSE <<Head(s)>> \o collapseSpaces(Tail(s))

\* normalize("NFC")
nfc(s) ==
  IF Len(s) < 2 THEN s
  ELSE LET hit == {c \in Compositions : c.base = s[1] /\ c.mark = s[2]}
       IN  IF hit # {}
           THEN <<(CHOOSE c \in hit : TRUE).composed>>
                  \o nfc(SubSeq(s, 3, Len(s)))
           ELSE <<Head(s)>> \o nfc(Tail(s))

normalizeErrorMessage(message) ==
  IF message.t \in {"null", "undefined"} THEN Placeholder
  ELSE nfc(collapseSpaces(trim(String(message))))

\* ------------------------------------------------------------------------
\* modules/custom: CustomError
\* ------------------------------------------------------------------------

Returned(obj) == [outcome |-> "returned", value |-> obj, hops |-> 0]

\* throw new X(...) inside a constructor: whatever new X(...) yields is raised
Thrown(r) == [outcome |-> "thrown", value |-> r.value, hops |-> r.hops + 1]

\* new.target is cls; the object gets the identity id
CustomErrorCtor(cls, id, message, properties) ==
  LET normalizedMessage == normalizeErrorMessage(StringValue(message))
  IN  Returned(
        [t           |-> "instance",
         id          |-> id,
         cls         |-> cls,
         name        |-> cls,
         message     |-> normalizedMessage,
         code        |-> Get(properties, "code", "ERROR"),
         type        |-> Get(properties, "type", "error"),
         status      |-> Get(properties, "status", 500),
         userMessage |-> Get(properties, "userMessage", normalizedMessage)]
        @@ Pick(properties, {"data", "cause"}))

\* the stack trace captured when the object o was made
StackOf(o) == [t |-> "stack", owner |-> o.id]

\* value instanceof Error
IsError(v) == v.t \in {"Error", "instance"}

\* mutant: a cause that is not an error is kept only when it is truthy
CauseToJSON_TruthyOnly(e) ==
  IF Has(e, "cause") /\ IsError(e.cause)
  THEN [cause |-> [name    |-> e.cause.name,
                   message |-> e.cause.message,
                   stack   |-> StackOf(e.cause)]
                  @@ Pick(e.cause, {"code"})]
  ELSE IF Has(e, "cause") /\ e.cause # Null THEN Pick(e, {"cause"})
       ELSE EmptyBag

\* the entry cause of toJSON's result, if any
CauseToJSON(e) ==
  IF Has(e, "cause") /\ IsError(e.cause)
  THEN [cause |-> [name    |-> e.cause.name,
                   message |-> e.cause.message,
                   stack   |-> StackOf(e.cause)]
                  @@ Pick(e.cause, {"code"})]
  ELSE Pick(e, {"cause"})

\* e.toJSON()
toJSON(e) ==
  [name        |-> e.name,
   code        |-> e.code,
   type        |-> e.type,
   status      |-> e.status,
   message     |-> e.message,
   userMessage |-> e.userMessage,
   stack       |-> StackOf(e)]
  @@ Pick(e, {"data"})
  @@ CauseToJSON(e)

\* ------------------------------------------------------------------------
\* modules/warn and modules/exception: the two families
\* ------------------------------------------------------------------------

WarnSubtypes ==
  [BadRequestWarn |-> [code |-> "BAD_REQUEST_WARN", status |-> 400,
      message |-> <<"R","e","q","u","i","s","i","U+00E7","U+00E3","o"," ","i","n","v","U+00E1","l","i","d","a">>],
   UnauthorizedWarn |-> [code |-> "UNAUTHORIZED_WARN", status |-> 401,
      message |-> <<"N","U+00E3","o"," ","a","u","t","o","r","i","z","a","d","o">>],
   ForbiddenWarn |-> [code |-> "FORBIDDEN_WARN", status |-> 403,
      message |-> <<"A","c","e","s","s","o"," ","n","e","g","a","d","o">>],
   NotFoundWarn |-> [code |-> "NOT_FOUND_WARN", status |-> 404,
      message |-> <<"R","e","c","u","r","s","o"," ","n","U+00E3","o"," ","e","n","c","o","n","t","r","a","d","o">>],
   ConflictWarn |-> [code |-> "CONFLICT_WARN", status |-> 409,
      message |-> <<"C","o","n","f","l","i","t","o"," ","d","e"," ","e","s","t","a","d","o">>],
   ValidationWarn |-> [code |-> "VALIDATION_WARN", status |-> 422,
      message |-> <<"F","a","l","h","a"," ","d","e"," ","v","a","l","i","d","a","U+00E7","U+00E3","o">>],
   TooManyRequestsWarn |-> [code |-> "TOO_MANY_REQUESTS_WARN", status |-> 429,
      message |-> <<"M","u","i","t","a","s"," ","r","e","q","u","i","s","i","U+00E7","U+00F5","e","s">>],
   UnknownRouteWarn |-> [code |-> "ROUTE_WARN", status |-> 404,
      message |-> <<"R","o","t","a"," ","n","U+00E3","o"," ","e","n","c","o","n","t","r","a","d","a">>],
   AuthWarn |-> [code |-> "AUTH_WARN", status |-> 401,
      message |-> <<"E","r","r","o"," ","d","e"," ","a","u","t","e","n","t","i","c","a","U+00E7","U+00E3","o","/","v","a","l","i","d","a","U+00E7","U+00E3","o"," ","d","e"," ","t","o","k","e","n">>]]

\* the subtypes of ExceptionError that copy data and userMessage only
ExceptionSubtypes ==
  [DatabaseError |-> [code |-> "DATABASE_ERROR", status |-> 500,
      message |-> <<"E","r","r","o"," ","n","o"," ","b","a","n","c","o"," ","d","e"," ","d","a","d","o","s">>],
   MailError |-> [code |-> "MAIL_ERROR", status |-> 502,
      message |-> <<"E","r","r","o"," ","a","o"," ","e","n","v","i","a","r"," ","e","-","m","a","i","l">>],
   EncryptError |-> [code |-> "ENCRYPT_ERROR", status |-> 500,
      message |-> <<"E","r","r","o"," ","a","o"," ","c","r","i","p","t","o","g","r","a","f","a","r"," ","v","a","l","o","r">>],
   ConfigError |-> [code |-> "CONFIG_ERROR", status |-> 500,
      message |-> <<"E","r","r","o"," ","a","o"," ","c","a","r","r","e","g","a","r"," ","c","o","n","f","i","g","u","r","a","U+00E7","U+00F5","e","s">>],
   IntegrationError |-> [code |-> "INTEGRATION_ERROR", status |-> 502,
      message |-> <<"E","r","r","o"," ","n","a"," ","i","n","t","e","g","r","a","U+00E7","U+00E3","o"," ","c","o","m"," ","s","e","r","v","i","U+00E7","o","s"," ","e","x","t","e","r","n","o","s">>],
   TimeoutError |-> [code |-> "TIMEOUT_ERROR", status |-> 504,
      message |-> <<"T","e","m","p","o"," ","l","i","m","i","t","e"," ","e","x","c","e","d","i","d","o">>],
   StorageError |-> [code |-> "STORAGE_ERROR", status |-> 507,
      message |-> <<"E","r","r","o"," ","d","e"," ","a","r","m","a","z","e","n","a","m","e","n","t","o">>],
   NetworkError |-> [code |-> "NETWORK_ERROR", status |-> 503,
      message |-> <<"E","r","r","o"," ","d","e"," ","r","e","d","e">>],
   LogError |-> [code |-> "LOG_ERROR", status |-> 500,
      message |-> <<"E","r","r","o"," ","d","e"," ","l","o","g">>],
   MemoryError |-> [code |-> "MEMORY_ERROR", status |-> 507,
      message |-> <<"E","r","r","o"," ","d","e"," ","m","e","m","U+00F3","r","i","a">>],
   AuthError |-> [code |-> "AUTH_ERROR", status |-> 500,
      message |-> <<"E","r","r","o"," ","d","e"," ","a","u","t","e","n","t","i","c","a","U+00E7","U+00E3","o","/","v","a","l","i","d","a","U+00E7","U+00E3","o"," ","d","e"," ","t","o","k","e","n">>]]

InternalServerDefaults ==
  [code |-> "SYSTEM_ERROR", status |-> 500,
   message |-> <<"E","r","r","o"," ","i","n","t","e","r","n","o"," ","d","o"," ","s","e","r","v","i","d","o","r">>]

\* class X extends WarnError
WarnClasses == {"WarnError"} \cup DOMAIN WarnSubtypes

\* class X extends ExceptionError
ExceptionClasses ==
  {"ExceptionError", "InternalServerError"} \cup DOMAIN ExceptionSubtypes

\* err instanceof CustomError
IsCustomError(v) == v.t = "instance"

IsWarnError(v) == IsCustomError(v) /\ v.cls \in WarnClasses

IsExceptionError(v) == IsCustomError(v) /\ v.cls \in ExceptionClasses

\* mutant: the upper bound of the client range is off by one
WarnOutOfRange_UpperOffByOne(status) == status < 400 \/ status > 500

\* mutant: the lower bound of the client range is off by one
WarnOutOfRange_LowerOffByOne(status) == status < 399 \/ status > 499

\* status < 400 || status > 499
WarnOutOfRange(status) == status < 400 \/ status > 499

\* mutant: 500 is not taken for a server status
WarnIsServerStatus_Misses500(status) == status > 500 /\ status < 600

\* status > 499 && status < 600
\* mutant: the redirection test lost its upper bound
WarnIsServerStatus_NoUpperBound(status) == status > 499

WarnIsServerStatus(status) == status > 499 /\ status < 600

\* mutant: the lower bound of the server range is off by one
ExceptionOutOfRange_LowerOffByOne(status) == status < 499 \/ status > 599

\* status < 500 || status > 599
ExceptionOutOfRange(status) == status < 500 \/ status > 599

\* status >= 400 && status <= 499
ExceptionIsClientStatus(status) == status >= 400 /\ status <= 499

\* mutant: the bag is spread after the fixed fields, so its type wins
WarnErrorCtor_SpreadLast(cls, id, message, properties) ==
  LET status == Get(properties, "status", 400)
  IN  IF WarnOutOfRange(status)
      THEN IF WarnIsServerStatus(status)
           THEN Thrown(ExceptionErrorCtor("ExceptionError", id, message, properties))
           ELSE Thrown(CustomErrorCtor("CustomError", id, message, properties))
      ELSE CustomErrorCtor(cls, id, message,
             properties
             @@ [type        |-> "warn",
                 status      |-> status,
                 code        |-> Get(properties, "code", "WARN"),
                 userMessage |-> Get(properties, "userMessage", message)])

WarnErrorCtor(cls, id, message, properties) ==
  LET status == Get(properties, "status", 400)
  IN  IF WarnOutOfRange(status)
      THEN IF WarnIsServerStatus(status)
           THEN Thrown(ExceptionErrorCtor("ExceptionError", id, message, properties))
           ELSE Thrown(CustomErrorCtor("CustomError", id, message, properties))
      ELSE CustomErrorCtor(cls, id, message,
             [type        |-> "warn",
              status      |-> status,
              code        |-> Get(properties, "code", "WARN"),
              userMessage |-> Get(properties, "userMessage", message)]
             @@ properties)

ExceptionErrorCtor(cls, id, message, properties) ==
  LET status == Get(properties, "status", 500)
  IN  IF ExceptionOutOfRange(status)
      THEN IF ExceptionIsClientStatus(status)
           THEN Thrown(WarnErrorCtor("WarnError", id, message, properties))
           ELSE Thrown(CustomErrorCtor("CustomError", id, message, properties))
      ELSE CustomErrorCtor(cls, id, message,
             [type        |-> "error",
              status      |-> status,
              code        |-> Get(properties, "code", "ERROR"),
              userMessage |-> Get(properties, "userMessage", message)]
             @@ properties)

\* mutant: the internal message is sent instead of the userMessage
WarnToHttp_InternalMessage(e) ==
  [status |-> e.status,
   body   |-> [code    |-> e.code,
               type    |-> e.type,
               message |-> e.message,
               data    |-> Get(e, "data", Null)]]

\* e.toHttp() of a WarnError
WarnToHttp(e) ==
  [status |-> e.status,
   body   |-> [code    |-> e.code,
               type    |-> e.type,
               message |-> Get(e, "userMessage", e.message),
               data    |-> Get(e, "data", Null)]]

\* e.toHttp() of an ExceptionError
ExceptionToHttp(e) ==
  [status |-> e.status,
   body   |-> [code    |-> e.code,
               type    |-> e.type,
               message |-> Get(e, "userMessage", e.message),
               data    |-> Get(e, "data", Null)]]

\* message ?? dflt
MessageOr(message, dflt) ==
  IF message.t \in {"null", "undefined"} THEN dflt ELSE message.s

\* new BadRequestWarn(message, properties) and its eight siblings
WarnSubtypeCtor(cls, id, message, properties) ==
  LET row == WarnSubtypes[cls]
  IN  WarnErrorCtor(cls, id, MessageOr(message, row.message),
        [code |-> row.code, status |-> row.status]
        @@ Pick(properties, {"userMessage", "data"}))

\* new DatabaseError(message, properties) and its ten siblings
ExceptionSubtypeCtor(cls, id, message, properties) ==
  LET row == ExceptionSubtypes[cls]
  IN  ExceptionErrorCtor(cls, id, MessageOr(message, row.message),
        [code |-> row.code, status |-> row.status]
        @@ Pick(properties, {"userMessage", "data"}))

\* mutant: the bag is spread after the fixed code and status
InternalServerErrorCtor_SpreadLast(id, message, properties) ==
  ExceptionErrorCtor("InternalServerError", id,
    MessageOr(message, InternalServerDefaults.message),
    properties
    @@ [code |-> InternalServerDefaults.code,
        status |-> InternalServerDefaults.status])

\* new InternalServerError(message, properties): the bag is spread first
InternalServerErrorCtor(id, message, properties) ==
  ExceptionErrorCtor("InternalServerError", id,
    MessageOr(message, InternalServerDefaults.message),
    [code |-> InternalServerDefaults.code,
     status |-> InternalServerDefaults.status]
    @@ properties)

\* mutant: the cause is taken from the override only
FromNativeProperties_NoCause(err, override) ==
  [code        |-> Get(override, "code", "SYSTEM_ERROR"),
   type        |-> Get(override, "type", "error"),
   status      |-> Get(override, "status", 500),
   userMessage |-> Get(override, "userMessage", err.message)]
  @@ Pick(override, {"data", "cause"})

\* static from(err, override): the bag handed to the constructor for an Error
FromNativeProperties(err, override) ==
  [code        |-> Get(override, "code", "SYSTEM_ERROR"),
   type        |-> Get(override, "type", "error"),
   status      |-> Get(override, "status", 500),
   userMessage |-> Get(override, "userMessage", err.message),
   cause       |-> GetUnknown(override, "cause", err)]
  @@ Pick(override, {"data"})

\* mutant: the status of the override is ignored
FromUnknownProperties_FixedStatus(err, override) ==
  [code        |-> Get(override, "code", "SYSTEM_ERROR"),
   type        |-> Get(override, "type", "error"),
   status      |-> 500,
   data        |-> Get(override, "data", [error |-> err]),
   userMessage |-> Get(override, "userMessage", Placeholder)]
  @@ Pick(override, {"cause"})

\* mutant: the wrapped value is stored as data itself
FromUnknownProperties_RawData(err, override) ==
  [code        |-> Get(override, "code", "SYSTEM_ERROR"),
   type        |-> Get(override, "type", "error"),
   status      |-> Get(override, "status", 500),
   data        |-> Get(override, "data", err),
   userMessage |-> Get(override, "userMessage", Placeholder)]
  @@ Pick(override, {"cause"})

\* static from(err, override): the bag handed to the constructor otherwise
FromUnknownProperties(err, override) ==
  [code        |-> Get(override, "code", "SYSTEM_ERROR"),
   type        |-> Get(override, "type", "error"),
   status      |-> Get(override, "status", 500),
   data        |-> Get(override, "data", [error |-> err]),
   userMessage |-> Get(override, "userMessage", Placeholder)]
  @@ Pick(override, {"cause"})

\* mutant: no early return, a CustomError is wrapped like any other Error
from_NoEarlyReturn(err, override, id) ==
  IF err.t \in {"Error", "instance"}
  THEN CustomErrorCtor("CustomError", id,
         IF err.message # <<>> THEN err.message ELSE Placeholder,
         FromNativeProperties(err, override))
  ELSE CustomErrorCtor("CustomError", id, Placeholder,
         FromUnknownProperties(err, override))

\* mutant: the message is read before the kind of value is known, which
\* raises a TypeError on null and undefined
from_DerefsNullish(err, override, id) ==
  IF IsCustomError(err) THEN Returned(err)
  ELSE IF err.t \in {"null", "undefined"}
       THEN [outcome |-> "thrown",
             value   |-> [t |-> "Error", id |-> id, name |-> "TypeError",
                          message |-> <<>>],
             hops    |-> 0]
       ELSE IF err.t = "Error"
            THEN CustomErrorCtor("CustomError", id,
                   IF err.message # <<>> THEN err.message ELSE Placeholder,
                   FromNativeProperties(err, override))
            ELSE CustomErrorCtor("CustomError", id, Placeholder,
                   FromUnknownProperties(err, override))

\* CustomError.from(err, override); a new object gets the identity id
from(err, override, id) ==
  IF IsCustomError(err) THEN Returned(err)
  ELSE IF err.t = "Error"
       THEN CustomErrorCtor("CustomError", id,
              IF err.message # <<>> THEN err.message ELSE Placeholder,
              FromNativeProperties(err, override))
       ELSE CustomErrorCtor("CustomError", id, Placeholder,
              FromUnknownProperties(err, override))

\* ------------------------------------------------------------------------
\* README, Express integration: errorMiddleware
\* ------------------------------------------------------------------------

\* mutant: 500 is taken for a client status
MiddlewareIsClient_Includes500(status) == status >= 400 /\ status <= 500

\* isClient
MiddlewareIsClient(status) == status >= 400 /\ status <= 499

\* isServer
MiddlewareIsServer(status) == status >= 500 /\ status <= 599

\* { ...base }: the own enumerable properties of the instance; whether cause
\* is one of them depends on how the class fields are compiled.  A family
\* constructor handed base reads status, code and userMessage from it and
\* spreads the rest, so it sees the same bag.
SpreadOf(base, causeEnumerable) ==
  Pick(base, {"name", "code", "type", "status", "userMessage", "data"}
             \cup (IF causeEnumerable THEN {"cause"} ELSE {}))

\* the body handed to res.status(...).json(...)
MiddlewareResponse(normalized) ==
  [status |-> normalized.status,
   body   |-> [code        |-> normalized.code,
               type        |-> normalized.type,
               message     |-> normalized.message,
               userMessage |-> normalized.userMessage,
               data        |-> Get(normalized, "data", Null)]]

\* errorMiddleware(err, ...); new objects get the identities id, id + 1
errorMiddleware(err, id, causeEnumerable) ==
  LET wrapped == from(err, EmptyBag, id)
      base    == wrapped.value
      id2     == IF base.id = id THEN id + 1 ELSE id
      made    ==
        IF MiddlewareIsClient(base.status)
        THEN WarnErrorCtor("WarnError", id2, base.message,
                           SpreadOf(base, causeEnumerable))
        ELSE IF MiddlewareIsServer(base.status)
             THEN ExceptionErrorCtor("ExceptionError", id2, base.message,
                                     SpreadOf(base, causeEnumerable))
             ELSE CustomErrorCtor("CustomError", id2, base.message,
                    [status |-> 500, type |-> "error", code |-> "SYSTEM_ERROR"]
                    @@ SpreadOf(base, causeEnumerable))
  IN  [outcome    |-> made.outcome,
       hops       |-> made.hops,
       base       |-> base,
       normalized |-> made.value,
       response   |-> IF made.outcome = "returned"
                      THEN MiddlewareResponse(made.value)
                      ELSE Undefined]

\* ------------------------------------------------------------------------
\* Inputs
\* ------------------------------------------------------------------------

MsgChars == {"a", "\t"}

Messages == UNION {[1..n -> MsgChars] : n \in 0..MaxMsgLen}

Statuses == {399, 400, 499, 500, 599, 600}

\* an earlier CustomError kept as the cause of a later one
EarlierError == CustomErrorCtor("CustomError", 0, <<"a">>, EmptyBag).value

FullBags ==
  [code        : {"CUSTOM_CODE"},
   type        : {"warn", "error"},
   status      : Statuses,
   data        : {[field |-> "email"]},
   userMessage : {<<"u", "\t">>},
   cause       : {StringValue(<<"c">>), Null, EarlierError}]

KeySets ==
  {e \cup s : e \in {{}, {"code"}, {"data"}, {"userMessage"}, {"cause"},
                     {"code", "data", "userMessage", "cause"}},
              s \in SUBSET {"status", "type"}}

\* the bags passed to the three base constructors
PropsBags == {Pick(f, k) : f \in FullBags, k \in KeySets}

\* the bags passed to the named subtypes
SubtypeBags == {b \in PropsBags : Has(b, "status") => b.status \in {400, 500}}

\* the bags passed to from
Overrides ==
  {b \in PropsBags : /\ Has(b, "status") => b.status = 499
                     /\ Has(b, "cause") => b.cause # EarlierError}

\* the message of the documented example of a named subtype
ResourceX == <<"R","e","s","o","u","r","c","e"," ","X">>

OptionalMessages ==
  {Undefined, StringValue(ResourceX)} \cup {StringValue(m) : m \in Messages}

\* the values thrown by foreign code
ForeignValues ==
  {NativeError(m) : m \in Messages}
  \cup {StringValue(<<"p">>), NumberValue(42), Null, Undefined, PlainObject}

\* ------------------------------------------------------------------------
\* The calls of one run: a construction or a wrap, then wraps of its result
\* ------------------------------------------------------------------------

Init ==
  /\ pc = "start"
  /\ op = "none"
  /\ args = EmptyBag
  /\ res = Undefined
  /\ outcome = "none"
  /\ hops = 0
  /\ wraps = 0
  /\ nextId = 1
  /\ out = Undefined

Finish(name, a, r) ==
  /\ pc' = "done"
  /\ op' = name
  /\ args' = a
  /\ res' = r.value
  /\ outcome' = r.outcome
  /\ hops' = r.hops
  /\ nextId' = IF r.value.id = nextId THEN nextId + 1 ELSE nextId
  /\ out' = out

NewCustomError ==
  /\ pc = "start"
  /\ \E m \in Messages, p \in PropsBags :
       Finish("CustomError", [message |-> StringValue(m), properties |-> p],
              CustomErrorCtor("CustomError", nextId, m, p))
  /\ wraps' = wraps

NewWarnError ==
  /\ pc = "start"
  /\ \E m \in Messages, p \in PropsBags :
       Finish("WarnError", [message |-> StringValue(m), properties |-> p],
              WarnErrorCtor("WarnError", nextId, m, p))
  /\ wraps' = wraps

NewExceptionError ==
  /\ pc = "start"
  /\ \E m \in Messages, p \in PropsBags :
       Finish("ExceptionError", [message |-> StringValue(m), properties |-> p],
              ExceptionErrorCtor("ExceptionError", nextId, m, p))
  /\ wraps' = wraps

NewWarnSubtype ==
  /\ pc = "start"
  /\ \E cls \in DOMAIN WarnSubtypes, m \in OptionalMessages, p \in SubtypeBags :
       Finish(cls, [message |-> m, properties |-> p],
              WarnSubtypeCtor(cls, nextId, m, p))
  /\ wraps' = wraps

NewExceptionSubtype ==
  /\ pc = "start"
  /\ \E cls \in DOMAIN ExceptionSubtypes, m \in OptionalMessages,
        p \in SubtypeBags :
       Finish(cls, [message |-> m, properties |-> p],
              ExceptionSubtypeCtor(cls, nextId, m, p))
  /\ wraps' = wraps

NewInternalServerError ==
  /\ pc = "start"
  /\ \E m \in OptionalMessages, p \in SubtypeBags :
       Finish("InternalServerError", [message |-> m, properties |-> p],
              InternalServerErrorCtor(nextId, m, p))
  /\ wraps' = wraps

\* catch (e) { CustomError.from(e, override) } around foreign code
FromForeign ==
  /\ pc = "start"
  /\ \E v \in ForeignValues, o \in Overrides :
       Finish("from", [err |-> v, override |-> o], from(v, o, nextId))
  /\ wraps' = wraps + 1

\* CustomError.from(e, override) on what the previous call returned or raised
FromResult ==
  /\ pc = "done"
  /\ wraps < MaxWraps
  /\ \E o \in Overrides :
       Finish("from", [err |-> res, override |-> o], from(res, o, nextId))
  /\ wraps' = wraps + 1

Next ==
  \/ NewCustomError
  \/ NewWarnError
  \/ NewExceptionError
  \/ NewWarnSubtype
  \/ NewExceptionSubtype
  \/ NewInternalServerError
  \/ FromForeign
  \/ FromResult

Spec == Init /\ [][Next]_vars

\* ------------------------------------------------------------------------
\* The consumers of an error: a construction or a wrap, then one use of it
\* ------------------------------------------------------------------------

Use(name, result) ==
  /\ pc' = "used"
  /\ op' = name
  /\ args' = [call |-> op, of |-> args]
  /\ out' = result
  /\ UNCHANGED <<res, outcome, hops, wraps, nextId>>

\* res.toHttp(), which only the two families define
ToHttp ==
  /\ pc = "done"
  /\ IsWarnError(res) \/ IsExceptionError(res)
  /\ Use("toHttp", IF IsWarnError(res) THEN WarnToHttp(res)
                   ELSE ExceptionToHttp(res))

\* res.toJSON()
ToJSON ==
  /\ pc = "done"
  /\ Use("toJSON", toJSON(res))

\* the middleware gets what a handler raised: the error just constructed or
\* wrapped, or a foreign value
ErrorMiddleware ==
  /\ pc \in {"start", "done"}
  /\ \E err \in (IF pc = "start" THEN ForeignValues ELSE {res}),
        causeEnumerable \in BOOLEAN :
       LET r == errorMiddleware(err, nextId, causeEnumerable)
       IN  /\ args' = [call |-> op, of |-> args, err |-> err]
           /\ out' = r
           /\ nextId' = r.normalized.id + 1
  /\ pc' = "used"
  /\ op' = "errorMiddleware"
  /\ UNCHANGED <<res, outcome, hops, wraps>>

UseNext ==
  \/ NewCustomError
  \/ NewWarnError
  \/ NewExceptionError
  \/ NewWarnSubtype
  \/ NewExceptionSubtype
  \/ NewInternalServerError
  \/ FromForeign
  \/ ToHttp
  \/ ToJSON
  \/ ErrorMiddleware

UseSpec == Init /\ [][UseNext]_vars

\* ------------------------------------------------------------------------
\* normalizeErrorMessage on its own
\* ------------------------------------------------------------------------

NormChars == {"a", "b", " ", "\t", "\n"}

\* the documented example "  a   b  "
PaddedAB == <<" ", " ", "a", " ", " ", " ", "b", " ", " ">>

NormInputs ==
  {StringValue(s) : s \in UNION {[1..n -> NormChars] : n \in 0..MaxNormLen}}
  \cup {StringValue(PaddedAB), Null, Undefined, NumberValue(42)}

NormInit ==
  /\ pc = "input"
  /\ op = "none"
  /\ args \in {[message |-> v] : v \in NormInputs}
  /\ res = Undefined
  /\ outcome = "none"
  /\ hops = 0
  /\ wraps = 0
  /\ nextId = 1
  /\ out = Undefined

Normalize ==
  /\ pc = "input"
  /\ pc' = "normalized"
  /\ op' = "normalizeErrorMessage"
  /\ out' = normalizeErrorMessage(args.message)
  /\ outcome' = "returned"
  /\ UNCHANGED <<args, res, hops, wraps, nextId>>

NormNext == Normalize

NormSpec == NormInit /\ [][NormNext]_vars

TypeOK ==
  /\ pc \in {"start", "done"}
  /\ outcome \in {"none", "returned", "thrown"}
  /\ wraps \in 0..MaxWraps
  /\ (pc = "done") => IsCustomError(res)

\* ------------------------------------------------------------------------
\* Properties
\* ------------------------------------------------------------------------

ClientRange == 400..499

ServerRange == 500..599

\* the invariant of the ErrorRecord data model
RecordInvariant(o) ==
  /\ o.type = "warn" => o.status \in ClientRange
  /\ o.type = "error" => o.status \in ServerRange

Supplied(key) == Has(args.properties, key)

\* the call was a construction by one of the two family base constructors
FamilyBaseCall == op \in {"WarnError", "ExceptionError"}

\* the call was a construction by a named subtype
NamedCall ==
  op \in DOMAIN WarnSubtypes \cup DOMAIN ExceptionSubtypes
         \cup {"InternalServerError"}

\* every field of the bag among keys is the field of the object
Carries(o, bag, keys) ==
  \A k \in keys \cap DOMAIN bag : Has(o, k) /\ o[k] = bag[k]

\* a base-type record that was built with neither a status nor a category
BuiltWithDefaults ==
  \/ op = "CustomError" /\ ~Supplied("status") /\ ~Supplied("type")
  \/ /\ op = "from"
     /\ ~IsCustomError(args.err)
     /\ ~Has(args.override, "status")
     /\ ~Has(args.override, "type")

\* C1 as stated: every ErrorRecord that any construction path produces has
\* category "warn" only with a status in 400..499 and category "error" only
\* with a status in 500..599.
C1_EveryRecordInRange == pc = "done" => RecordInvariant(res)

\* C1 amended: the records of the two families, and the base-type records
\* built with neither a status nor a category supplied, have category "warn"
\* only with a status in 400..499 and category "error" only with a status in
\* 500..599; a status or category supplied to the base type is stored
\* unchecked.
C1_CheckedRecordsInRange ==
  (pc = "done" /\ (IsWarnError(res) \/ IsExceptionError(res) \/ BuiltWithDefaults))
    => RecordInvariant(res)

\* a family constructor was given a category that contradicts its family
C1_Witness ==
  /\ op = "WarnError"
  /\ Supplied("type") /\ args.properties.type = "error"
  /\ IsWarnError(res)

\* C2: every instance of the client family has category "warn" and a status
\* in 400..499, and the client constructor without a status yields 400.
C2_ClientFamilyRange ==
  /\ (pc = "done" /\ IsWarnError(res))
       => (res.type = "warn" /\ res.status \in ClientRange)
  /\ (op = "WarnError" /\ ~Supplied("status"))
       => (IsWarnError(res) /\ res.status = 400)
  /\ (op \in DOMAIN WarnSubtypes) => IsWarnError(res)

C2_Witness ==
  /\ op = "WarnError"
  /\ ~Supplied("status")
  /\ res.cls = "WarnError"
  /\ outcome = "returned"

\* C3: every instance of the server family has category "error" and a status
\* in 500..599, and the server constructor without a status yields 500.
C3_ServerFamilyRange ==
  /\ (pc = "done" /\ IsExceptionError(res))
       => (res.type = "error" /\ res.status \in ServerRange)
  /\ (op = "ExceptionError" /\ ~Supplied("status"))
       => (IsExceptionError(res) /\ res.status = 500)
  /\ (op \in DOMAIN ExceptionSubtypes \cup {"InternalServerError"})
       => IsExceptionError(res)

C3_Witness ==
  /\ op = "ExceptionError"
  /\ ~Supplied("status")
  /\ res.cls = "ExceptionError"
  /\ outcome = "returned"

\* the redirected construction raised an instance of family cls that keeps
\* what the original call passed
RedirectedTo(cls, category) ==
  /\ outcome = "thrown"
  /\ res.cls = cls
  /\ res.type = category
  /\ res.status = args.properties.status
  /\ res.message = normalizeErrorMessage(args.message)
  /\ Carries(res, args.properties, {"code", "data", "userMessage", "cause"})
  /\ \A k \in {"data", "cause"} : Has(res, k) => Supplied(k)

\* C4: the client constructor with a status in 500..599 raises a server
\* family instance, the server constructor with a status in 400..499 raises
\* a client family instance; the raised instance has the other family's
\* category, the supplied status, and the message, code, data, userMessage
\* and cause of the original call.
C4_CrossFamilyRedirect ==
  /\ (op = "WarnError" /\ Supplied("status")
        /\ args.properties.status \in ServerRange)
       => RedirectedTo("ExceptionError", "error")
  /\ (op = "ExceptionError" /\ Supplied("status")
        /\ args.properties.status \in ClientRange)
       => RedirectedTo("WarnError", "warn")

C4_Witness ==
  /\ op = "WarnError"
  /\ Supplied("status") /\ args.properties.status = 500
  /\ Supplied("cause") /\ Supplied("code")
  /\ res.cls = "ExceptionError"

C6_Table ==
  [BadRequestWarn      |-> <<400, "BAD_REQUEST_WARN", "warn">>,
   UnauthorizedWarn    |-> <<401, "UNAUTHORIZED_WARN", "warn">>,
   ForbiddenWarn       |-> <<403, "FORBIDDEN_WARN", "warn">>,
   NotFoundWarn        |-> <<404, "NOT_FOUND_WARN", "warn">>,
   ConflictWarn        |-> <<409, "CONFLICT_WARN", "warn">>,
   ValidationWarn      |-> <<422, "VALIDATION_WARN", "warn">>,
   TooManyRequestsWarn |-> <<429, "TOO_MANY_REQUESTS_WARN", "warn">>,
   UnknownRouteWarn    |-> <<404, "ROUTE_WARN", "warn">>,
   AuthWarn            |-> <<401, "AUTH_WARN", "warn">>,
   InternalServerError |-> <<500, "SYSTEM_ERROR", "error">>,
   DatabaseError       |-> <<500, "DATABASE_ERROR", "error">>,
   MailError           |-> <<502, "MAIL_ERROR", "error">>,
   EncryptError        |-> <<500, "ENCRYPT_ERROR", "error">>,
   ConfigError         |-> <<500, "CONFIG_ERROR", "error">>,
   IntegrationError    |-> <<502, "INTEGRATION_ERROR", "error">>,
   TimeoutError        |-> <<504, "TIMEOUT_ERROR", "error">>,
   StorageError        |-> <<507, "STORAGE_ERROR", "error">>,
   NetworkError        |-> <<503, "NETWORK_ERROR", "error">>,
   LogError            |-> <<500, "LOG_ERROR", "error">>,
   MemoryError         |-> <<507, "MEMORY_ERROR", "error">>,
   AuthError           |-> <<500, "AUTH_ERROR", "error">>]

OverrideKeys == {"code", "type", "status", "data", "userMessage", "cause"}

\* C7 as stated: whatever value from is given, each field the override
\* supplies is the value of that field in the result.
C7_OverrideAlwaysWins ==
  op = "from" => Carries(res, args.override, OverrideKeys)

\* the keys the override supplies with a value that ?? does not skip
SuppliedKeys(override) ==
  {k \in DOMAIN override : k = "cause" => override[k] # Null}

\* C7 amended: when the value is not of the base type (a native failure or
\* an arbitrary value), each field the override supplies with a value other
\* than null is the value of that field in the result; a value already of
\* the base type is returned with the override ignored.
C7_OverrideWinsOnForeign ==
  (op = "from" /\ ~IsCustomError(args.err))
    => Carries(res, args.override, SuppliedKeys(args.override))

C7_Witness ==
  /\ op = "from"
  /\ ~IsCustomError(args.err)
  /\ DOMAIN args.override = OverrideKeys
  /\ args.override.cause # Null
  /\ res.status = 499

\* C8: from on a value of the base type returns that same instance with
\* every field unchanged, so wrapping the result of a wrap again changes
\* nothing.
C8_FromIdempotent ==
  [][(op' = "from" /\ IsCustomError(args'.err))
       => /\ outcome' = "returned"
          /\ res' = args'.err
          /\ nextId' = nextId
          /\ (pc = "done" => res' = res)]_vars

\* the result of a wrap was wrapped again
C8_Witness ==
  /\ op = "from"
  /\ wraps = 2
  /\ IsCustomError(args.err)
  /\ args.err.code = "SYSTEM_ERROR"
  /\ res.id = args.err.id

NoOverride == DOMAIN args.override = {}

\* C9: from on a native failure without override returns a base-type
\* instance with the normalized message of the failure (the placeholder when
\* it is empty), code "SYSTEM_ERROR", category "error", status 500,
\* userMessage the message of the failure and cause the failure itself.
C9_FromNativeFailure ==
  (op = "from" /\ args.err.t = "Error" /\ NoOverride)
    => /\ outcome = "returned"
       /\ res.cls = "CustomError"
       /\ res.message = IF args.err.message = <<>> THEN Placeholder
                        ELSE normalizeErrorMessage(StringValue(args.err.message))
       /\ res.code = "SYSTEM_ERROR"
       /\ res.type = "error"
       /\ res.status = 500
       /\ res.userMessage = args.err.message
       /\ Has(res, "cause") /\ res.cause = args.err

C9_Witness ==
  /\ op = "from"
  /\ args.err.t = "Error"
  /\ args.err.message = <<"a", "\t", "a">>
  /\ NoOverride
  /\ res.message = <<"a", " ", "a">>

\* C10: from on a value that is neither of the base type nor a native
\* failure, without override, returns a base-type instance with the
\* placeholder as message and userMessage, code "SYSTEM_ERROR", category
\* "error", status 500, data {error: value} and no cause.
C10_FromArbitraryValue ==
  (op = "from" /\ args.err.t \notin {"Error", "instance"} /\ NoOverride)
    => /\ outcome = "returned"
       /\ res.cls = "CustomError"
       /\ res.message = Placeholder
       /\ res.code = "SYSTEM_ERROR"
       /\ res.type = "error"
       /\ res.status = 500
       /\ Has(res, "data") /\ res.data = [error |-> args.err]
       /\ res.userMessage = Placeholder
       /\ ~Has(res, "cause")

C10_Witness ==
  /\ op = "from"
  /\ args.err = PlainObject
  /\ NoOverride
  /\ res.data = [error |-> PlainObject]

\* a JavaScript string: a finite sequence of code points
IsString(s) == DOMAIN s = 1..Len(s) /\ \A i \in DOMAIN s : s[i] \in STRING

\* a record with every field of the ErrorRecord data model, well typed
WellFormedRecord(o) ==
  /\ IsCustomError(o)
  /\ {"message", "code", "type", "status", "userMessage"} \subseteq DOMAIN o
  /\ IsString(o.message)
  /\ o.code \in STRING
  /\ o.type \in {"warn", "error"}
  /\ o.status \in Int
  /\ IsString(o.userMessage)

BuiltWithoutUserMessage ==
  /\ (op = "CustomError" \/ FamilyBaseCall \/ NamedCall)
  /\ ~Supplied("userMessage")

\* C12: an instance constructed without a userMessage, by the base type, a
\* family base type or a named subtype, has its stored (normalized) message
\* as userMessage, whatever whitespace the message input has.
C12_UserMessageIsStoredMessage ==
  BuiltWithoutUserMessage => res.userMessage = res.message

\* C13: toHttp of a family instance is {status, body: {code, category,
\* message, data}} with the instance's status, code and category, its
\* userMessage as message and its data or null, and nothing else;
\* NotFound("Resource X") gives status 404, code "NOT_FOUND_WARN", category
\* "warn", message "Resource X" and data null.
C13_ToHttpShape ==
  /\ op = "toHttp"
       => /\ IsWarnError(res) \/ IsExceptionError(res)
          /\ DOMAIN out = {"status", "body"}
          /\ DOMAIN out.body = {"code", "type", "message", "data"}
          /\ out.status = res.status
          /\ out.body.code = res.code
          /\ out.body.type = res.type
          /\ out.body.message = res.userMessage
          /\ out.body.data = IF Has(res, "data") THEN res.data ELSE Null
  /\ (/\ op = "toHttp"
      /\ args.call = "NotFoundWarn"
      /\ args.of.message = StringValue(ResourceX)
      /\ args.of.properties = EmptyBag)
       => out = [status |-> 404,
                 body   |-> [code    |-> "NOT_FOUND_WARN",
                             type    |-> "warn",
                             message |-> ResourceX,
                             data    |-> Null]]

\* the documented example was shaped
C13_Witness ==
  /\ op = "toHttp"
  /\ args.call = "NotFoundWarn"
  /\ args.of.message = StringValue(ResourceX)
  /\ args.of.properties = EmptyBag
  /\ out.status = 404

\* the mapping toJSON gives for a cause that is an error
CauseMapping(c, m) ==
  /\ DOMAIN m \subseteq {"name", "message", "code", "stack"}
  /\ m.name = c.name
  /\ m.message = c.message
  /\ m.stack = StackOf(c)
  /\ Has(m, "code") <=> Has(c, "code")
  /\ Has(c, "code") => m.code = c.code

\* C14: toJSON has the instance's code, status, message and userMessage; a
\* cause that is an error is given as {name, message, code, stack}, any other
\* cause is given as it is, and without a cause there is no cause entry.
C14_ToJSONShape ==
  op = "toJSON"
    => /\ out.code = res.code
       /\ out.status = res.status
       /\ out.message = res.message
       /\ out.userMessage = res.userMessage
       /\ Has(out, "cause") <=> Has(res, "cause")
       /\ (Has(res, "cause") /\ IsError(res.cause))
            => CauseMapping(res.cause, out.cause)
       /\ (Has(res, "cause") /\ ~IsError(res.cause))
            => out.cause = res.cause

\* an instance whose cause is an earlier CustomError was serialized
C14_Witness ==
  /\ op = "toJSON"
  /\ Has(res, "cause") /\ res.cause = EarlierError
  /\ out.cause.code = "ERROR"
  /\ out.cause # res.cause

\* C17: the middleware's sequence, from(err) and then the construction
\* chosen by the status of the wrapped error, never redirects nor raises, and
\* the error it builds has a status in 400..599 with category "warn" exactly
\* for 400..499 and category "error" exactly for 500..599.
C17_MiddlewareNormalizes ==
  op = "errorMiddleware"
    => /\ out.outcome = "returned"
       /\ out.hops = 0
       /\ out.normalized.status \in ClientRange \cup ServerRange
       /\ out.normalized.type = "warn" <=> out.normalized.status \in ClientRange
       /\ out.normalized.type = "error" <=> out.normalized.status \in ServerRange

\* a base-type error whose category contradicted its status was normalized
C17_Witness ==
  /\ op = "errorMiddleware"
  /\ IsCustomError(args.err)
  /\ args.err.type = "warn" /\ args.err.status = 599
  /\ out.normalized.cls = "ExceptionError"
  /\ out.normalized.type = "error"

\* the whitespace of the normalizer's rule
C15_Whitespace == {" ", "\t", "\n"}

\* the positions of the characters of s that are not whitespace, in order
NonWhitespacePositions(s) ==
  LET Keep(i) == s[i] \notin C15_Whitespace
  IN  SelectSeq([i \in 1..Len(s) |-> i], Keep)

\* the characters of s that are not whitespace, in order
NonWhitespace(s) ==
  LET Keep(c) == c \notin C15_Whitespace
  IN  SelectSeq(s, Keep)

\* o is s without leading and trailing whitespace and with one space for
\* every run of whitespace between two other characters
WhitespaceRule(s, o) ==
  LET p == NonWhitespacePositions(s)
      q == NonWhitespacePositions(o)
  IN  /\ o = <<>> \/ (o[1] \notin C15_Whitespace /\ o[Len(o)] \notin C15_Whitespace)
      /\ \A i \in DOMAIN o : o[i] \in C15_Whitespace => o[i] = " "
      /\ NonWhitespace(o) = NonWhitespace(s)
      /\ \A k \in 1..(Len(p) - 1) :
           IF p[k + 1] > p[k] + 1 THEN q[k + 1] = q[k] + 2
           ELSE q[k + 1] = q[k] + 1

\* C15: for a string over an alphabet with space, tab and newline the
\* normalizer returns the string without leading and trailing whitespace,
\* with exactly one space for every run of whitespace and the other
\* characters in order; "  a   b  " gives "a b"; it returns a string for
\* every input.
C15_NormalizerWhitespace ==
  pc = "normalized"
    => /\ outcome = "returned"
       /\ IsString(out)
       /\ args.message.t = "string" => WhitespaceRule(args.message.s, out)
       /\ args.message = StringValue(PaddedAB) => out = <<"a", " ", "b">>

\* a string with runs of tabs and newlines inside and around was normalized
C15_Witness ==
  /\ pc = "normalized"
  /\ args.message = StringValue(<<"\t", "a", "\n", "b">>)
  /\ out = <<"a", " ", "b">>

\* C16: a family constructor, called directly or by a named subtype, finishes
\* after at most one redirection, and the constructor the redirection entered
\* accepted the status: the other family's with the status in its range, or
\* the base type's.
C16_OneRedirection ==
  (FamilyBaseCall \/ NamedCall)
    => /\ pc = "done"
       /\ hops \in {0, 1}
       /\ hops = 0 <=> outcome = "returned"
       /\ hops = 1
            => /\ outcome = "thrown"
               /\ res.status = args.properties.status
               /\ \/ op = "WarnError" /\ res.cls = "ExceptionError"
                       /\ res.status \in ServerRange
                  \/ op = "ExceptionError" /\ res.cls = "WarnError"
                       /\ res.status \in ClientRange
                  \/ res.cls = "CustomError"
                       /\ res.status \notin ClientRange \cup ServerRange

\* the server constructor was redirected once, at the edge of the client range
C16_Witness ==
  /\ op = "ExceptionError"
  /\ Supplied("status") /\ args.properties.status = 499
  /\ hops = 1
  /\ res.cls = "WarnError"

====
